---- MODULE Spec2Model ----
(***************************************************************************)
(* decode_zip.py: read ghana_voice_ledger_base64.txt as text, strip it,    *)
(* base64-decode it and write the bytes to GhanaVoiceLedger.zip.           *)
(*                                                                         *)
(* Characters are code points, bytes are integers 0..255, texts and byte   *)
(* strings are sequences of them.                                          *)
(***************************************************************************)
EXTENDS Integers, Sequences, FiniteSets, TLC

\* ------------------------------------------------------------------ bounds

\* Longest payload B whose standard encoding is an initial input file.
MaxPayloadLen == 3
\* Longest initial input file drawn freely from TextBytes.
MaxTextLen == 2
\* Number of runs of the script in one behaviour.
MaxRuns == 2

\* ------------------------------------------------------- characters, files

PAD == 61        \* '='
SPACE == 32      \* ' '
LF == 10         \* '\n'
CR == 13         \* '\r'
NBSP == 160      \* U+00A0, whitespace to str.strip(), not ASCII

INPUT_PATH == "ghana_voice_ledger_base64.txt"
OUTPUT_PATH == "GhanaVoiceLedger.zip"
CONFIRMATION == "ZIP file created successfully: GhanaVoiceLedger.zip"

\* ---------------------------------------------------------- pure functions

\* str.isspace() of one code point below 256, as str.strip() with no argument uses it.
IsSpace(c) == c \in (9..13) \cup (28..32) \cup {133, NBSP}

RECURSIVE LStrip(_)
LStrip(s) == IF s # <<>> /\ IsSpace(Head(s)) THEN LStrip(Tail(s)) ELSE s

RECURSIVE RStrip(_)
RStrip(s) ==
    IF s # <<>> /\ IsSpace(s[Len(s)]) THEN RStrip(SubSeq(s, 1, Len(s) - 1)) ELSE s

\* A strip that forgets the leading side (str.rstrip()).
StripTrailingOnly(s) == RStrip(s)

\* str.strip(): leading and trailing whitespace removed.
Strip(s) == RStrip(LStrip(s))

\* Universal newlines of a text-mode read: "\r\n" and "\r" become "\n".
RECURSIVE TranslateNewlines(_)
TranslateNewlines(s) ==
    IF s = <<>> THEN <<>>
    ELSE IF Head(s) = CR
         THEN IF Len(s) >= 2 /\ s[2] = LF
              THEN <<LF>> \o TranslateNewlines(SubSeq(s, 3, Len(s)))
              ELSE <<LF>> \o TranslateNewlines(Tail(s))
         ELSE <<Head(s)>> \o TranslateNewlines(Tail(s))

\* The UTF-8 codec over the bytes of b from index i, with the code points
\* decoded so far: one- and two-byte sequences; every other byte >= 128 of the
\* bytes this model puts in files (TextBytes, Paddings) is an invalid start
\* byte or a truncated sequence, a UnicodeDecodeError (ok = FALSE).
RECURSIVE Utf8Decode(_, _, _)
Utf8Decode(b, i, out) ==
    IF i > Len(b) THEN [ok |-> TRUE, text |-> out]
    ELSE IF b[i] < 128 THEN Utf8Decode(b, i + 1, Append(out, b[i]))
    ELSE IF b[i] \in 194..223 /\ i < Len(b) /\ b[i + 1] \in 128..191
    THEN Utf8Decode(b, i + 2, Append(out, (b[i] % 32) * 64 + (b[i + 1] % 64)))
    ELSE [ok |-> FALSE, text |-> <<>>]

\* The text codec of open(..., 'r'): the locale's encoding, here UTF-8 or
\* Latin-1 (every byte is the code point of its value).
DecodeBytes(bytes, enc) ==
    IF enc = "utf-8" THEN Utf8Decode(bytes, 1, <<>>) ELSE [ok |-> TRUE, text |-> bytes]

\* f.read() on a text-mode handle: decode the bytes, then translate newlines.
\* A UnicodeDecodeError is ok = FALSE.
ReadText(bytes, enc) ==
    IF DecodeBytes(bytes, enc).ok
    THEN [ok |-> TRUE, text |-> TranslateNewlines(DecodeBytes(bytes, enc).text)]
    ELSE [ok |-> FALSE, text |-> <<>>]

\* The table of the URL-safe alphabet ('-' and '_' for '+' and '/').
table_a2b_urlsafe(c) ==
    IF c \in 65..90 THEN c - 65
    ELSE IF c \in 97..122 THEN c - 97 + 26
    ELSE IF c \in 48..57 THEN c - 48 + 52
    ELSE IF c = 45 THEN 62
    ELSE IF c = 95 THEN 63
    ELSE -1

\* binascii's table_a2b_base64: the 6-bit value of a base64 character, -1 otherwise.
table_a2b_base64(c) ==
    IF c \in 65..90 THEN c - 65
    ELSE IF c \in 97..122 THEN c - 97 + 26
    ELSE IF c \in 48..57 THEN c - 48 + 52
    ELSE IF c = 43 THEN 62
    ELSE IF c = 47 THEN 63
    ELSE -1

\* binascii's table_b2a_base64: the character of a 6-bit value.
table_b2a_base64(v) ==
    IF v < 26 THEN 65 + v
    ELSE IF v < 52 THEN 97 + (v - 26)
    ELSE IF v < 62 THEN 48 + (v - 52)
    ELSE IF v = 62 THEN 43
    ELSE 47

\* binascii.a2b_base64(s) with strict_mode off, as base64.b64decode(s) with the
\* default validate=False calls it: the loop over the characters of s from
\* index i, with the quad position, the leftover bits, the count of pads seen
\* since the last data character and the bytes produced so far.
\*   - '=' ends the decoding once the quad holds two or more characters and the
\*     pads complete it; any other '=' is skipped;
\*   - a character outside the alphabet is skipped;
\*   - input ending inside a quad raises binascii.Error (ok = FALSE).
RECURSIVE a2b_loop(_, _, _, _, _, _)
a2b_loop(s, i, quad_pos, leftchar, pads, out) ==
    IF i > Len(s)
    THEN [ok |-> quad_pos = 0, bytes |-> IF quad_pos = 0 THEN out ELSE <<>>]
    ELSE LET c == s[i]
             v == table_a2b_base64(c)
         IN  IF c = PAD
             THEN IF quad_pos >= 2 /\ quad_pos + pads + 1 >= 4
                  THEN [ok |-> TRUE, bytes |-> out]
                  ELSE a2b_loop(s, i + 1, quad_pos, leftchar,
                                IF quad_pos >= 2 THEN pads + 1 ELSE pads, out)
             ELSE IF v < 0
             THEN a2b_loop(s, i + 1, quad_pos, leftchar, pads, out)
             ELSE IF quad_pos = 0
             THEN a2b_loop(s, i + 1, 1, v, 0, out)
             ELSE IF quad_pos = 1
             THEN a2b_loop(s, i + 1, 2, v % 16, 0,
                           Append(out, (leftchar * 4 + v \div 16) % 256))
             ELSE IF quad_pos = 2
             THEN a2b_loop(s, i + 1, 3, v % 4, 0,
                           Append(out, (leftchar * 16 + v \div 4) % 256))
             ELSE a2b_loop(s, i + 1, 0, 0, 0,
                           Append(out, (leftchar * 64 + v) % 256))

a2b_base64(s) == a2b_loop(s, 1, 0, 0, 0, <<>>)

\* base64.b64decode(data) of a str: the str is encoded to ASCII first (a
\* ValueError for a non-ASCII character), then a2b_base64 decodes it.
b64decode(data) ==
    IF \E k \in 1..Len(data) : data[k] > 127
    THEN [ok |-> FALSE, bytes |-> <<>>]
    ELSE a2b_base64(data)

\* The standard base64 encoding of a byte string (base64.b64encode), which the
\* round-trip law feeds to the script.
RECURSIVE b64encode(_)
b64encode(B) ==
    IF B = <<>> THEN <<>>
    ELSE IF Len(B) = 1
    THEN <<table_b2a_base64(B[1] \div 4), table_b2a_base64((B[1] % 4) * 16), PAD, PAD>>
    ELSE IF Len(B) = 2
    THEN <<table_b2a_base64(B[1] \div 4),
           table_b2a_base64((B[1] % 4) * 16 + B[2] \div 16),
           table_b2a_base64((B[2] % 16) * 4), PAD>>
    ELSE <<table_b2a_base64(B[1] \div 4),
           table_b2a_base64((B[1] % 4) * 16 + B[2] \div 16),
           table_b2a_base64((B[2] % 16) * 4 + B[3] \div 64),
           table_b2a_base64(B[3] % 64)>> \o b64encode(SubSeq(B, 4, Len(B)))

\* ------------------------------------------------------------ input space

\* Bytes of the payloads B of the round-trip law.
PayloadBytes == {104, 255}

RECURSIVE SeqsUpTo(_, _)
SeqsUpTo(S, n) ==
    IF n = 0 THEN {<<>>}
    ELSE LET shorter == SeqsUpTo(S, n - 1)
         IN  shorter \cup {Append(t, x) : t \in {u \in shorter : Len(u) = n - 1}, x \in S}

Payloads == SeqsUpTo(PayloadBytes, MaxPayloadLen)

\* Bytes of the freely drawn input files: 'Q', '=', '!' (33, outside the
\* alphabet), '\n', 0xA0 (NBSP in Latin-1, a continuation byte in UTF-8) and
\* 0xC2 (the UTF-8 lead byte of U+00A0, 'Â' in Latin-1).
TextBytes == {81, PAD, 33, LF, NBSP, 194}

\* The encodings of the payloads, and each of them damaged: '!' appended, a
\* space put inside, the last character dropped.
EncodedInputs == {b64encode(B) : B \in Payloads}
DamagedInputs ==
    {Append(e, 33) : e \in EncodedInputs}
      \cup {SubSeq(e, 1, 2) \o <<SPACE>> \o SubSeq(e, 3, Len(e)) :
                e \in EncodedInputs \ {<<>>}}
      \cup {SubSeq(e, 1, Len(e) - 1) : e \in EncodedInputs \ {<<>>}}

InputContents == EncodedInputs \cup DamagedInputs \cup SeqsUpTo(TextBytes, MaxTextLen)

\* The input path: no such file, a file open() may not read, or a file.
InputFiles ==
    {[kind |-> "missing", bytes |-> <<>>], [kind |-> "denied", bytes |-> <<>>]}
      \cup {[kind |-> "file", bytes |-> b] : b \in InputContents}

\* What a previous producer left at the output path: longer than any payload.
OldOutput == <<80, 75, 3, 4, 20, 0, 8, 0>>
OutputFiles == {[exists |-> FALSE, bytes |-> <<>>], [exists |-> TRUE, bytes |-> OldOutput]}

\* Room on the output volume: unlimited, or one more byte.
Disks == {[limited |-> FALSE, free |-> 0], [limited |-> TRUE, free |-> 1]}

\* Whitespace a second producer of the input file may put around it (bytes).
Paddings == {<<<<>>, <<LF>>>>, <<<<SPACE>>, <<CR, LF>>>>, <<<<NBSP>>, <<NBSP>>>>}

\* ------------------------------------------------------------------ state

VARIABLES
    inFile,      \* the file at INPUT_PATH
    outFile,     \* the file at OUTPUT_PATH
    outWritable, \* whether open(OUTPUT_PATH, 'wb') is permitted
    disk,        \* room for the output file's bytes
    encoding,    \* the locale's text encoding
    pc,          \* the line the script is at, or "completed" / "failed"
    inHandle,    \* "none", "open", "closed": the handle of line 3
    outHandle,   \* "none", "open", "closed": the handle of line 6
    data,        \* the variable data of line 4
    decoded,     \* the value of base64.b64decode(data) of line 7
    stdout,      \* the lines printed by this run
    failedAt,    \* "none", or the step whose exception ended the run
    steps,       \* how often this run executed each step
    out0,        \* outFile when this run started
    run,         \* the number of this run
    prev         \* the previous run: its input file, end state and output file

vars == <<inFile, outFile, outWritable, disk, encoding, pc, inHandle, outHandle,
          data, decoded, stdout, failedAt, steps, out0, run, prev>>

env == <<outWritable, disk, encoding>>

NoSteps == [openIn |-> 0, read |-> 0, openOut |-> 0, decode |-> 0, write |-> 0, print |-> 0]

NoPrev == [inFile |-> [kind |-> "missing", bytes |-> <<>>], pc |-> "none",
           failedAt |-> "none", outFile |-> [exists |-> FALSE, bytes |-> <<>>]]

Terminal == pc \in {"completed", "failed"}

Init ==
    /\ inFile \in InputFiles
    /\ outFile \in OutputFiles
    /\ outWritable \in BOOLEAN
    /\ disk \in Disks
    /\ encoding \in {"utf-8", "latin-1"}
    /\ pc = "line3"
    /\ inHandle = "none"
    /\ outHandle = "none"
    /\ data = <<>>
    /\ decoded = <<>>
    /\ stdout = <<>>
    /\ failedAt = "none"
    /\ steps = NoSteps
    /\ out0 = outFile
    /\ run = 1
    /\ prev = NoPrev

\* ---------------------------------------------------------------- actions

\* The failure to open the input caught and passed over: the script goes on
\* with empty data.
OpenInputFailSwallowed ==
    /\ pc = "line3"
    /\ inFile.kind # "file"
    /\ pc' = "line6"
    /\ steps' = [steps EXCEPT !.openIn = @ + 1]
    /\ UNCHANGED <<inFile, outFile, env, inHandle, outHandle, data, decoded,
                   stdout, failedAt, out0, run, prev>>

\* Line 3, open(INPUT_PATH, 'r') raising FileNotFoundError or PermissionError.
OpenInputFail ==
    /\ pc = "line3"
    /\ inFile.kind # "file"
    /\ pc' = "failed"
    /\ failedAt' = "read"
    /\ steps' = [steps EXCEPT !.openIn = @ + 1]
    /\ UNCHANGED <<inFile, outFile, env, inHandle, outHandle, data, decoded,
                   stdout, out0, run, prev>>

\* Line 3, open(INPUT_PATH, 'r') returning the handle f.
OpenInput ==
    /\ pc = "line3"
    /\ inFile.kind = "file"
    /\ inHandle' = "open"
    /\ pc' = "line4"
    /\ steps' = [steps EXCEPT !.openIn = @ + 1]
    /\ UNCHANGED <<inFile, outFile, env, outHandle, data, decoded, stdout,
                   failedAt, out0, run, prev>>

\* Line 4, f.read() raising UnicodeDecodeError; the with statement closes f.
ReadFail ==
    /\ pc = "line4"
    /\ \E r \in {ReadText(inFile.bytes, encoding)} : ~r.ok
    /\ inHandle' = "closed"
    /\ pc' = "failed"
    /\ failedAt' = "read"
    /\ steps' = [steps EXCEPT !.read = @ + 1]
    /\ UNCHANGED <<inFile, outFile, env, outHandle, data, decoded, stdout,
                   out0, run, prev>>

\* Line 4, data = f.read().strip(); the with statement closes f.
ReadStrip ==
    /\ pc = "line4"
    /\ \E r \in {ReadText(inFile.bytes, encoding)} :
          /\ r.ok
          /\ \E text \in {r.text} : data' = Strip(text)
    /\ inHandle' = "closed"
    /\ pc' = "line6"
    /\ steps' = [steps EXCEPT !.read = @ + 1]
    /\ UNCHANGED <<inFile, outFile, env, outHandle, decoded, stdout, failedAt,
                   out0, run, prev>>

\* The output opened in mode 'xb': FileExistsError when the file is there.
OpenOutputFailIfExists ==
    /\ pc = "line6"
    /\ (~outWritable \/ outFile.exists)
    /\ pc' = "failed"
    /\ failedAt' = "write"
    /\ steps' = [steps EXCEPT !.openOut = @ + 1]
    /\ UNCHANGED <<inFile, outFile, env, inHandle, outHandle, data, decoded,
                   stdout, out0, run, prev>>

\* Line 6, open(OUTPUT_PATH, 'wb') raising OSError: nothing is created.
OpenOutputFail ==
    /\ pc = "line6"
    /\ ~outWritable
    /\ pc' = "failed"
    /\ failedAt' = "write"
    /\ steps' = [steps EXCEPT !.openOut = @ + 1]
    /\ UNCHANGED <<inFile, outFile, env, inHandle, outHandle, data, decoded,
                   stdout, out0, run, prev>>

\* The output opened in mode 'ab': created if absent, never truncated.
OpenOutputAppend ==
    /\ pc = "line6"
    /\ outWritable
    /\ outFile' = [exists |-> TRUE, bytes |-> outFile.bytes]
    /\ outHandle' = "open"
    /\ pc' = "line7"
    /\ steps' = [steps EXCEPT !.openOut = @ + 1]
    /\ UNCHANGED <<inFile, env, inHandle, data, decoded, stdout, failedAt,
                   out0, run, prev>>

\* Line 6, open(OUTPUT_PATH, 'wb'): the file is created, or truncated to nothing.
OpenOutput ==
    /\ pc = "line6"
    /\ outWritable
    /\ outFile' = [exists |-> TRUE, bytes |-> <<>>]
    /\ outHandle' = "open"
    /\ pc' = "line7"
    /\ steps' = [steps EXCEPT !.openOut = @ + 1]
    /\ UNCHANGED <<inFile, env, inHandle, data, decoded, stdout, failedAt,
                   out0, run, prev>>

\* The decode failure with the output opened outside a with statement: the
\* handle is left open.
DecodeFailLeak ==
    /\ pc = "line7"
    /\ \E r \in {b64decode(data)} : ~r.ok
    /\ pc' = "failed"
    /\ failedAt' = "decode"
    /\ steps' = [steps EXCEPT !.decode = @ + 1]
    /\ UNCHANGED <<inFile, outFile, env, inHandle, outHandle, data, decoded,
                   stdout, out0, run, prev>>

\* Line 7, base64.b64decode(data) raising binascii.Error or ValueError inside
\* the with block of line 6, which closes the output handle.
DecodeFail ==
    /\ pc = "line7"
    /\ \E r \in {b64decode(data)} : ~r.ok
    /\ outHandle' = "closed"
    /\ pc' = "failed"
    /\ failedAt' = "decode"
    /\ steps' = [steps EXCEPT !.decode = @ + 1]
    /\ UNCHANGED <<inFile, outFile, env, inHandle, data, decoded, stdout,
                   out0, run, prev>>

\* The decode step tried a second time after its first failure.
DecodeOrRetry ==
    /\ pc = "line7"
    /\ \E r \in {b64decode(data)} :
          /\ r.ok \/ steps.decode = 0
          /\ decoded' = r.bytes
          /\ pc' = IF r.ok THEN "line7write" ELSE "line7"
    /\ steps' = [steps EXCEPT !.decode = @ + 1]
    /\ UNCHANGED <<inFile, outFile, env, inHandle, outHandle, data, stdout,
                   failedAt, out0, run, prev>>

\* Line 7, the argument base64.b64decode(data) evaluated.
Decode ==
    /\ pc = "line7"
    /\ \E r \in {b64decode(data)} : r.ok /\ decoded' = r.bytes
    /\ pc' = "line7write"
    /\ steps' = [steps EXCEPT !.decode = @ + 1]
    /\ UNCHANGED <<inFile, outFile, env, inHandle, outHandle, data, stdout,
                   failedAt, out0, run, prev>>

\* The write failure caught and passed over: the script goes on to line 9.
WriteFailSwallowed ==
    /\ pc = "line7write"
    /\ disk.limited /\ Len(decoded) > disk.free
    /\ outFile' = [exists |-> TRUE, bytes |-> outFile.bytes \o SubSeq(decoded, 1, disk.free)]
    /\ outHandle' = "closed"
    /\ pc' = "line9"
    /\ steps' = [steps EXCEPT !.write = @ + 1]
    /\ UNCHANGED <<inFile, env, inHandle, data, decoded, stdout, failedAt,
                   out0, run, prev>>

\* Line 7, f.write(...) raising OSError (no space left): the bytes the volume
\* took stay in the file; the with statement closes the handle.
WriteFail ==
    /\ pc = "line7write"
    /\ disk.limited /\ Len(decoded) > disk.free
    /\ outFile' = [exists |-> TRUE, bytes |-> outFile.bytes \o SubSeq(decoded, 1, disk.free)]
    /\ outHandle' = "closed"
    /\ pc' = "failed"
    /\ failedAt' = "write"
    /\ steps' = [steps EXCEPT !.write = @ + 1]
    /\ UNCHANGED <<inFile, env, inHandle, data, decoded, stdout, out0, run, prev>>

\* Line 7, f.write(...) of all the bytes; the with statement closes the handle.
Write ==
    /\ pc = "line7write"
    /\ ~(disk.limited /\ Len(decoded) > disk.free)
    /\ outFile' = [exists |-> TRUE, bytes |-> outFile.bytes \o decoded]
    /\ outHandle' = "closed"
    /\ pc' = "line9"
    /\ steps' = [steps EXCEPT !.write = @ + 1]
    /\ UNCHANGED <<inFile, env, inHandle, data, decoded, stdout, failedAt,
                   out0, run, prev>>

\* Line 9, print(...).
PrintConfirmation ==
    /\ pc = "line9"
    /\ stdout' = Append(stdout, CONFIRMATION)
    /\ pc' = "completed"
    /\ steps' = [steps EXCEPT !.print = @ + 1]
    /\ UNCHANGED <<inFile, outFile, env, inHandle, outHandle, data, decoded,
                   failedAt, out0, run, prev>>

\* The process has ended; the script is started again, as a new process.
StartRun(newIn) ==
    /\ Terminal
    /\ run < MaxRuns
    /\ prev' = [inFile |-> inFile, pc |-> pc, failedAt |-> failedAt, outFile |-> outFile]
    /\ inFile' = newIn
    /\ pc' = "line3"
    /\ inHandle' = "none"
    /\ outHandle' = "none"
    /\ data' = <<>>
    /\ decoded' = <<>>
    /\ stdout' = <<>>
    /\ failedAt' = "none"
    /\ steps' = NoSteps
    /\ out0' = outFile
    /\ run' = run + 1
    /\ UNCHANGED <<outFile, env>>

\* The script run again on the unchanged input file.
Rerun == StartRun(inFile)

\* The input file rewritten with whitespace around its bytes, and the script run again.
PadAndRerun ==
    /\ inFile.kind = "file"
    /\ \E p \in Paddings :
          StartRun([kind |-> "file", bytes |-> p[1] \o inFile.bytes \o p[2]])

Step ==
    \/ OpenInputFail
    \/ OpenInput
    \/ ReadFail
    \/ ReadStrip
    \/ OpenOutputFail
    \/ OpenOutput
    \/ DecodeFail
    \/ Decode
    \/ WriteFail
    \/ Write
    \/ PrintConfirmation

Next == Step \/ Rerun \/ PadAndRerun

Spec == Init /\ [][Next]_vars

\* ------------------------------------------------------------------ claims

\* The text the run reads from the input file, and whether it can read it.
InputReadable == inFile.kind = "file" /\ ReadText(inFile.bytes, encoding).ok
InputText == ReadText(inFile.bytes, encoding).text

\* The volume takes all the bytes b.
DiskTakes(b) == ~(disk.limited /\ Len(b) > disk.free)

\* C1 as stated: whenever the input file holds the standard base64 encoding
\* of a payload B, the run that ends has completed and the output file holds
\* exactly B, whatever it held before.
C1_RoundTripAlways ==
    \A B \in Payloads :
        (Terminal /\ inFile.kind = "file" /\ inFile.bytes = b64encode(B))
            => (pc = "completed" /\ outFile = [exists |-> TRUE, bytes |-> B])

\* C1, amended: when the input file holds the standard base64 encoding of a
\* payload B, the run fails neither at the read nor at the decode step; if the
\* output file can be opened for writing and the volume takes all of B, the run
\* completes; and a completed run leaves exactly B in the output file, whatever
\* it held before.
C1_RoundTrip ==
    \A B \in Payloads :
        (Terminal /\ inFile.kind = "file" /\ inFile.bytes = b64encode(B))
            => /\ failedAt \notin {"read", "decode"}
               /\ (outWritable /\ DiskTakes(B)) => pc = "completed"
               /\ pc = "completed" => outFile = [exists |-> TRUE, bytes |-> B]

\* A three-byte payload written over a longer previous output file.
C1_Witness ==
    /\ pc = "completed"
    /\ inFile.bytes = b64encode(<<104, 255, 104>>)
    /\ out0 = [exists |-> TRUE, bytes |-> OldOutput]
    /\ outFile = [exists |-> TRUE, bytes |-> <<104, 255, 104>>]

\* C2 as stated: a run that failed at the decode step leaves the output file
\* as it was before the run: absent if it was absent, its bytes unmodified if
\* it was present.
C2_MalformedLeavesOutput == failedAt = "decode" => outFile = out0

\* A character that is neither in the base64 alphabet nor the pad '='.
Foreign(c) == table_a2b_base64(c) < 0 /\ c # PAD

\* C3 as stated: a run whose trimmed input text holds a character outside the
\* base64 alphabet fails at the decode step: once the decode step has run, the
\* run has failed there, and it never completes.
C3_StrictDecoding ==
    (steps.decode >= 1 /\ \E k \in 1..Len(data) : Foreign(data[k]))
        => (pc = "failed" /\ failedAt = "decode")

\* C4: when the input file is missing or cannot be read, the output file is
\* never opened, created, truncated or written (it stays as it was before the
\* run), and the run that ends has failed at the read step.
C4_MissingInput ==
    ~InputReadable
        => /\ outFile = out0
           /\ outHandle = "none"
           /\ steps.openOut = 0 /\ steps.decode = 0 /\ steps.write = 0
           /\ Terminal => (pc = "failed" /\ failedAt = "read")

\* A run that ended on a missing input file with a previous output file in place.
C4_Witness ==
    /\ pc = "failed"
    /\ inFile.kind = "missing"
    /\ steps.openIn = 1
    /\ outFile = [exists |-> TRUE, bytes |-> OldOutput]

\* C5: a second run on the unchanged input file ends with the output file as
\* the first run left it, and a completed run leaves exactly the decoded bytes
\* in the output file: nothing of what the file held before survives.
C5_Idempotent ==
    /\ (Terminal /\ run >= 2 /\ prev.inFile = inFile)
          => (outFile = prev.outFile /\ pc = prev.pc /\ failedAt = prev.failedAt)
    /\ pc = "completed" => outFile = [exists |-> TRUE, bytes |-> b64decode(data).bytes]

\* A second completed run on the same input, over the non-empty output of the first.
C5_Witness ==
    /\ run = 2
    /\ pc = "completed"
    /\ prev.pc = "completed"
    /\ prev.inFile = inFile
    /\ Len(prev.outFile.bytes) = 3
    /\ outFile = prev.outFile

\* The text t2 is the text t1 with whitespace before and after it.
IsPadded(t2, t1) ==
    \E i \in 0..(Len(t2) - Len(t1)) :
        /\ SubSeq(t2, i + 1, i + Len(t1)) = t1
        /\ \A k \in 1..i : IsSpace(t2[k])
        /\ \A k \in (i + Len(t1) + 1)..Len(t2) : IsSpace(t2[k])

PrevText == ReadText(prev.inFile.bytes, encoding).text

\* This run read the previous run's text with whitespace put around it.
PaddedRerun ==
    /\ run >= 2
    /\ prev.inFile.kind = "file"
    /\ ReadText(prev.inFile.bytes, encoding).ok
    /\ InputReadable
    /\ IsPadded(InputText, PrevText)

\* C6: a run on a text T with leading or trailing whitespace added ends as the
\* run on T did: the same completion or failure at the same step, and on
\* completion the same output bytes.
C6_WhitespaceTolerance ==
    (Terminal /\ PaddedRerun)
        => /\ pc = prev.pc
           /\ failedAt = prev.failedAt
           /\ pc = "completed" => outFile.bytes = prev.outFile.bytes

\* A completed run on a padded text that decodes to something.
C6_Witness ==
    /\ pc = "completed"
    /\ PaddedRerun
    /\ Len(InputText) > Len(PrevText)
    /\ IsSpace(InputText[1])
    /\ outFile.bytes # <<>>

\* C7: the confirmation is printed exactly once in a completed run and in no
\* other; when it is printed the decoded bytes are all in the output file and
\* the output handle is closed; a run that failed printed nothing.
C7_Confirmation ==
    /\ pc = "completed" => stdout = <<CONFIRMATION>>
    /\ pc # "completed" => stdout = <<>>
    /\ failedAt # "none" => (stdout = <<>> /\ steps.print = 0)
    /\ stdout # <<>> => /\ outHandle = "closed"
                        /\ steps.write = 1
                        /\ outFile = [exists |-> TRUE, bytes |-> decoded]

\* A completed run that wrote bytes and printed the line.
C7_Witness ==
    /\ pc = "completed"
    /\ stdout = <<CONFIRMATION>>
    /\ outFile.bytes = decoded
    /\ decoded # <<>>

\* C8: no handle is open when a run has ended; the input handle is closed once
\* line 4 is done and the output handle once line 7 is done, on the success
\* path and on every failure path; the output handle is opened only after the
\* input handle is closed.
C8_ScopedHandles ==
    /\ Terminal => (inHandle # "open" /\ outHandle # "open")
    /\ pc \notin {"line3", "line4"} => inHandle # "open"
    /\ pc \notin {"line7", "line7write"} => outHandle # "open"
    /\ outHandle # "none" => inHandle = "closed"

\* A run that failed at the decode step, both handles having been opened.
C8_Witness ==
    /\ pc = "failed"
    /\ failedAt = "decode"
    /\ inHandle = "closed"
    /\ outHandle = "closed"

\* The input file exists and its text is empty or only whitespace.
BlankInput == InputReadable /\ Strip(InputText) = <<>>

\* C9 as stated: a run on an empty or whitespace-only input file completes,
\* leaves a zero-byte output file and prints the confirmation.
C9_EmptyInputAlways ==
    (Terminal /\ BlankInput)
        => /\ pc = "completed"
           /\ outFile = [exists |-> TRUE, bytes |-> <<>>]
           /\ stdout = <<CONFIRMATION>>

\* C9, amended: a run on an empty or whitespace-only input file never fails at
\* the read or decode step; if the output file can be opened for writing it
\* completes, leaves a zero-byte output file and prints the confirmation;
\* otherwise it fails at the write step with the output file as it was.
C9_EmptyInput ==
    (Terminal /\ BlankInput)
        => IF outWritable
           THEN /\ pc = "completed"
                /\ outFile = [exists |-> TRUE, bytes |-> <<>>]
                /\ stdout = <<CONFIRMATION>>
           ELSE /\ failedAt = "write"
                /\ outFile = out0

\* A completed run on a whitespace-only input that truncated a previous output file.
C9_Witness ==
    /\ pc = "completed"
    /\ BlankInput
    /\ inFile.bytes # <<>>
    /\ out0 = [exists |-> TRUE, bytes |-> OldOutput]
    /\ outFile = [exists |-> TRUE, bytes |-> <<>>]

\* Each step ran at most once, a run is completed or failed but not both, and
\* a failed run executed no step after the one that failed and left the output
\* file it had created or cut short in place.
AbortOnFirstError ==
    /\ \A k \in DOMAIN steps : steps[k] <= 1
    /\ pc = "failed" <=> failedAt # "none"
    /\ pc = "completed" => (steps.read = 1 /\ steps.decode = 1 /\ steps.write = 1)
    /\ failedAt = "read" =>
          (steps.openOut = 0 /\ steps.decode = 0 /\ steps.write = 0 /\ steps.print = 0)
    /\ failedAt = "decode" =>
          (steps.write = 0 /\ steps.print = 0 /\ outFile = [exists |-> TRUE, bytes |-> <<>>])
    /\ failedAt = "write" =>
          (steps.print = 0 /\ (steps.write = 1 => outFile.exists))

\* The number of steps this run has executed.
StepCount ==
    steps.openIn + steps.read + steps.openOut + steps.decode + steps.write + steps.print

\* Within a run, whatever changes is one more step of a run that has not
\* ended: a run that has ended changes nothing until the script is started again.
OneMoreStep == (run' = run) => (~Terminal /\ ~UNCHANGED pc /\ StepCount' = StepCount + 1)

\* C10: every run ends, completed or failed: a run that has not ended always
\* has a next step, and every step of a run adds one to the count of its
\* steps, each of which is executed at most once, so that a run ends within
\* six steps; each of the steps read, decode and write runs at most once in a
\* run; once a step has failed no later step runs, nothing is opened, written,
\* cleaned up or retried.
C10_AbortNoRetry ==
    /\ []AbortOnFirstError
    /\ [](Terminal \/ ENABLED Step)
    /\ [][OneMoreStep]_vars

\* A run that failed at the decode step after truncating a previous output file.
C10_Witness ==
    /\ pc = "failed"
    /\ failedAt = "decode"
    /\ steps = [openIn |-> 1, read |-> 1, openOut |-> 1, decode |-> 1, write |-> 0, print |-> 0]
    /\ out0.exists
    /\ outFile.bytes = <<>>

====
